---------------------------- MODULE Spec2Model ----------------------------
(***************************************************************************)
(* A model of prep_datasets.py: the bAbI pre-processing pipeline           *)
(* (tokenize, parse_stories, get_tokenizer, tokenize_stories, the shape    *)
(* inference of main, pad_stories, save_dataset).                          *)
(*                                                                         *)
(* Text is modelled as a sequence of one-character strings, so that        *)
(* splitting, stripping, integer parsing and sorting are computed the way  *)
(* the Python code computes them.  The module targets the interpreter the  *)
(* file is written for (the __future__ imports of lines 4-6: Python 2),    *)
(* where re.split never splits on an empty match.                          *)
(***************************************************************************)
EXTENDS Integers, Sequences, FiniteSets, TLC

VARIABLES
    pc,               \* position of the running function / of main
    err,              \* the exception that ended the run, or "none"
    sentence,         \* tokenize: its argument
    tokens,           \* tokenize: its result
    lines,            \* parse_stories: the lines consumed so far
    only_supporting,  \* parse_stories: its flag
    story,            \* parse_stories: the story buffer
    stories,          \* parse_stories / get_tokenizer / pad_stories: the examples
    token_to_id,      \* get_tokenizer: the mapping built
    maxima,           \* pad_stories: (sentence, story, query) max lengths
    padded,           \* pad_stories: how many times it has returned
    before,           \* pad_stories: the examples as they were before the last call
    train,            \* main: the train split (lines, then examples)
    test,             \* main: the test split (lines, then examples)
    file_train,       \* main: the train record file on disk
    file_test         \* main: the test record file on disk

vars == <<pc, err, sentence, tokens, lines, only_supporting, story, stories,
          token_to_id, maxima, padded, before, train, test, file_train, file_test>>

-----------------------------------------------------------------------------
(* Characters and Python's string primitives                                *)

Digits == <<"0", "1", "2", "3", "4", "5", "6", "7", "8", "9">>

\* str.strip() / str.split(): the whitespace characters.
Whitespace == {" ", "\t", "\n"}

\* \w of the re module: alphanumerics and the underscore.
WordChars == {"a", "b", "c", "A", "D", "P", "_"} \cup {Digits[i] : i \in 1..10}

\* The code points of the characters the model uses (sorted() compares by them).
CodePoint(c) ==
    CASE c = "\t" -> 9
      [] c = "\n" -> 10
      [] c = " " -> 32
      [] c = "-" -> 45
      [] c = "." -> 46
      [] c = "0" -> 48
      [] c = "1" -> 49
      [] c = "2" -> 50
      [] c = "3" -> 51
      [] c = "4" -> 52
      [] c = "5" -> 53
      [] c = "6" -> 54
      [] c = "7" -> 55
      [] c = "8" -> 56
      [] c = "9" -> 57
      [] c = "?" -> 63
      [] c = "A" -> 65
      [] c = "D" -> 68
      [] c = "P" -> 80
      [] c = "_" -> 95
      [] c = "a" -> 97
      [] c = "b" -> 98
      [] c = "c" -> 99

Slice(s, i, j) == IF i > j THEN << >> ELSE SubSeq(s, i, j)

RECURSIVE LStrip(_)
LStrip(s) ==
    IF s # << >> /\ Head(s) \in Whitespace THEN LStrip(Tail(s)) ELSE s

RECURSIVE RStrip(_)
RStrip(s) ==
    IF s # << >> /\ s[Len(s)] \in Whitespace
    THEN RStrip(SubSeq(s, 1, Len(s) - 1))
    ELSE s

\* str.strip()
Strip(s) == RStrip(LStrip(s))

\* The position of the first occurrence of c in s at or after i, or 0.
RECURSIVE Find(_, _, _)
Find(s, c, i) ==
    IF i > Len(s) THEN 0
    ELSE IF s[i] = c THEN i
    ELSE Find(s, c, i + 1)

\* str.split(c): split on every occurrence of the character c.
RECURSIVE SplitOn(_, _)
SplitOn(s, c) ==
    LET k == Find(s, c, 1)
    IN  IF k = 0 THEN <<s>>
        ELSE <<Slice(s, 1, k - 1)>> \o SplitOn(Slice(s, k + 1, Len(s)), c)

\* str.split(c, 1): split on the first occurrence of c only.
SplitOnce(s, c) ==
    LET k == Find(s, c, 1)
    IN  IF k = 0 THEN <<s>>
        ELSE <<Slice(s, 1, k - 1), Slice(s, k + 1, Len(s))>>

\* The end of the run of whitespace (ws = TRUE) or of non-whitespace that
\* starts at i.
RECURSIVE WsRunEnd(_, _, _)
WsRunEnd(s, i, ws) ==
    IF i < Len(s) /\ ((s[i + 1] \in Whitespace) = ws)
    THEN WsRunEnd(s, i + 1, ws)
    ELSE i

\* str.split(): the maximal runs of non-whitespace characters.
RECURSIVE SplitWs(_)
SplitWs(s) ==
    LET t == LStrip(s)
    IN  IF t = << >> THEN << >>
        ELSE LET e == WsRunEnd(t, 1, FALSE)
             IN  <<Slice(t, 1, e)>> \o SplitWs(Slice(t, e + 1, Len(t)))

DigitValue(c) == CHOOSE d \in 0..9 : Digits[d + 1] = c

IsDigit(c) == \E d \in 1..10 : Digits[d] = c

RECURSIVE Decimal(_)
Decimal(s) ==
    IF s = << >> THEN 0
    ELSE 10 * Decimal(SubSeq(s, 1, Len(s) - 1)) + DigitValue(s[Len(s)])

\* int(s): an optional sign and decimal digits, surrounding whitespace allowed;
\* anything else raises ValueError.
IntOk(s) ==
    LET t == Strip(s)
        d == IF t # << >> /\ Head(t) \in {"-", "+"} THEN Tail(t) ELSE t
    IN  d # << >> /\ \A i \in 1..Len(d) : IsDigit(d[i])

Int_(s) ==
    LET t == Strip(s)
    IN  IF Head(t) = "-" THEN 0 - Decimal(Tail(t))
        ELSE IF Head(t) = "+" THEN Decimal(Tail(t))
        ELSE Decimal(t)

-----------------------------------------------------------------------------
(* tokenize (lines 20-29)                                                   *)

\* The end of the maximal run of non-word characters that starts at i.
RECURSIVE NonWordRunEnd(_, _)
NonWordRunEnd(s, i) ==
    IF i < Len(s) /\ s[i + 1] \notin WordChars
    THEN NonWordRunEnd(s, i + 1)
    ELSE i

\* re.split(SPLIT_RE, s) with SPLIT_RE = '(\W+)?': the scan of the string from
\* pos, last being the end of the previous split.  An empty match (at a word
\* character) does not split; a non-empty match is a maximal run of non-word
\* characters, and the capturing group puts the run itself in the result.
RECURSIVE ReSplitFrom(_, _, _)
ReSplitFrom(s, pos, last) ==
    IF pos > Len(s) THEN <<Slice(s, last, Len(s))>>
    ELSE IF s[pos] \in WordChars THEN ReSplitFrom(s, pos + 1, last)
    ELSE LET e == NonWordRunEnd(s, pos)
         IN  <<Slice(s, last, pos - 1), Slice(s, pos, e)>>
                 \o ReSplitFrom(s, e + 1, e + 1)

\* re.split with the group left out of the pattern ('\W+'): the runs of
\* non-word characters are not part of the result.
RECURSIVE ReSplitNoGroupFrom(_, _, _)
ReSplitNoGroupFrom(s, pos, last) ==
    IF pos > Len(s) THEN <<Slice(s, last, Len(s))>>
    ELSE IF s[pos] \in WordChars THEN ReSplitNoGroupFrom(s, pos + 1, last)
    ELSE LET e == NonWordRunEnd(s, pos)
         IN  <<Slice(s, last, pos - 1)>> \o ReSplitNoGroupFrom(s, e + 1, e + 1)

re_split_no_group(s) == ReSplitNoGroupFrom(s, 1, 1)

re_split(s) == ReSplitFrom(s, 1, 1)

RECURSIVE StripAndKeep(_)
StripAndKeep(parts) ==
    IF parts = << >> THEN << >>
    ELSE LET t == Strip(Head(parts))
         IN  (IF t # << >> THEN <<t>> ELSE << >>) \o StripAndKeep(Tail(parts))

\* [token.strip() for token in re.split(SPLIT_RE, sentence) if token.strip()]
tokenize(s) == StripAndKeep(re_split(s))


-----------------------------------------------------------------------------
(* parse_stories (lines 31-60)                                              *)

\* The '' that line 56 appends to the story buffer after a question line.  In
\* this program '' and [] behave alike (both are false in "if x", both iterate
\* to nothing in tokenize_stories), and both are the empty sequence here.
Placeholder == << >>

ParserState(st, sts, e) == [story |-> st, stories |-> sts, err |-> e]

Example(st, q, a) == [story |-> st, query |-> q, answer |-> a]

\* list[k] with Python's indexing, k being the 0-based index: a negative k
\* counts from the end, and k outside -len..len-1 raises IndexError.
PyIndexOk(list, k) == k < Len(list) /\ k >= 0 - Len(list)

PyIndex(list, k) == IF k >= 0 THEN list[k + 1] ELSE list[Len(list) + k + 1]

\* [x for x in story if x]
RECURSIVE NonEmpty(_)
NonEmpty(st) ==
    IF st = << >> THEN << >>
    ELSE (IF Head(st) # << >> THEN <<Head(st)>> ELSE << >>) \o NonEmpty(Tail(st))

\* [story[i - 1] for i in supporting]
Substory(st, supporting) ==
    [k \in 1..Len(supporting) |-> PyIndex(st, supporting[k] - 1)]

\* Line 56, story.append(''), left out.
after_question_no_placeholder(st) == st

\* Line 56: a question line leaves a placeholder in the story buffer.
after_question(st) == Append(st, Placeholder)

\* Lines 42-43 left out: the buffer is never cleared.
reset_story_never(nid, st) == st

\* Lines 42-43: a line with id 1 starts a new story.
reset_story(nid, st) == IF nid = 1 THEN << >> ELSE st

\* Lines 44-56: the question line `line` (it holds a tab), st being the story
\* buffer after the reset of line 43.
parse_question(st, sts, supp_only, line) ==
    LET fields == SplitOn(line, "\t")
    IN  IF Len(fields) # 3 THEN ParserState(st, sts, "ValueError")
        ELSE
        LET query == tokenize(fields[1])
            answer == fields[2]
            words == SplitWs(fields[3])
        IN  IF ~supp_only
            THEN ParserState(after_question(st),
                             Append(sts, Example(NonEmpty(st), query, answer)),
                             "none")
            ELSE IF \E k \in 1..Len(words) : ~IntOk(words[k])
            THEN ParserState(st, sts, "ValueError")
            ELSE
            LET supporting == [k \in 1..Len(words) |-> Int_(words[k])]
            IN  IF \E k \in 1..Len(supporting) : ~PyIndexOk(st, supporting[k] - 1)
                THEN ParserState(st, sts, "IndexError")
                ELSE ParserState(after_question(st),
                                 Append(sts, Example(Substory(st, supporting),
                                                     query, answer)),
                                 "none")

\* Lines 39-59: one iteration of the loop over the lines.
parse_line(st, sts, supp_only, raw) ==
    LET parts == SplitOnce(Strip(raw), " ")
    IN  IF Len(parts) # 2 \/ ~IntOk(parts[1])
        THEN ParserState(st, sts, "ValueError")
        ELSE
        LET nid == Int_(parts[1])
            line == parts[2]
            st1 == reset_story(nid, st)
        IN  IF Find(line, "\t", 1) # 0
            THEN parse_question(st1, sts, supp_only, line)
            ELSE ParserState(Append(st1, tokenize(line)), sts, "none")

\* parse_stories(lines, only_supporting) as a whole: the loop from a state.
RECURSIVE parse_from(_, _, _)
parse_from(state, supp_only, ls) ==
    IF ls = << >> \/ state.err # "none" THEN state
    ELSE parse_from(parse_line(state.story, state.stories, supp_only, Head(ls)),
                    supp_only, Tail(ls))

parse_stories(ls, supp_only) ==
    parse_from(ParserState(<< >>, << >>, "none"), supp_only, ls)

-----------------------------------------------------------------------------
(* get_tokenizer, tokenize_stories (lines 22-23, 87-102)                    *)

PAD_TOKEN == <<"_", "P", "A", "D">>

PAD_ID == 0

Range(f) == {f[i] : i \in DOMAIN f}

\* The tokens of one example: its sentences' tokens, its query's, its answer.
ExampleTokens(ex) ==
    UNION {Range(ex.story[i]) : i \in 1..Len(ex.story)}
        \cup Range(ex.query) \cup {ex.answer}

\* set(tokens_all)
TokensAll(sts) == UNION {ExampleTokens(sts[i]) : i \in 1..Len(sts)}

\* Python's order on strings: by code point, a proper prefix first.
StrLess(a, b) ==
    \E k \in 1..(Len(a) + 1) :
        /\ k <= Len(b) + 1
        /\ \A j \in 1..(k - 1) : a[j] = b[j]
        /\ \/ k = Len(a) + 1 /\ k <= Len(b)
           \/ k <= Len(a) /\ k <= Len(b) /\ CodePoint(a[k]) < CodePoint(b[k])

\* sorted(S) of a set of strings.
RECURSIVE sorted(_)
sorted(S) ==
    IF S = {} THEN << >>
    ELSE LET least == CHOOSE x \in S : \A y \in S \ {x} : StrLess(x, y)
         IN  <<least>> \o sorted(S \ {least})

\* {token: i for i, token in enumerate(vocab)}: a token that occurs twice in
\* vocab keeps the index of its last occurrence.
DictOfEnumerate(vocab) ==
    [t \in Range(vocab) |->
        (CHOOSE i \in 1..Len(vocab) :
            vocab[i] = t /\ \A j \in (i + 1)..Len(vocab) : vocab[j] # t) - 1]

get_tokenizer(sts) == DictOfEnumerate(<<PAD_TOKEN>> \o sorted(TokensAll(sts)))

\* token_to_id[token] raises KeyError for a token the mapping lacks.
tokenize_ok(sts, t2i) == TokensAll(sts) \subseteq DOMAIN t2i

Ids(seq, t2i) == [k \in 1..Len(seq) |-> t2i[seq[k]]]

tokenize_stories(sts, t2i) ==
    [i \in 1..Len(sts) |->
        Example([j \in 1..Len(sts[i].story) |-> Ids(sts[i].story[j], t2i)],
                Ids(sts[i].query, t2i),
                t2i[sts[i].answer])]

-----------------------------------------------------------------------------
(* The shape inference of main (lines 175-177)                              *)

Max(S) == CHOOSE x \in S : \A y \in S : y <= x

SentenceLengths(sts) ==
    UNION {{Len(sts[i].story[j]) : j \in 1..Len(sts[i].story)} : i \in 1..Len(sts)}

StoryLengths(sts) == {Len(sts[i].story) : i \in 1..Len(sts)}

QueryLengths(sts) == {Len(sts[i].query) : i \in 1..Len(sts)}

\* max([]) raises ValueError.
infer_ok(sts) ==
    SentenceLengths(sts) # {} /\ StoryLengths(sts) # {} /\ QueryLengths(sts) # {}

\* (sentence_max_length, story_max_length, query_max_length)
infer_shape(sts) ==
    <<Max(SentenceLengths(sts)), Max(StoryLengths(sts)), Max(QueryLengths(sts))>>

-----------------------------------------------------------------------------
(* pad_stories (lines 104-123)                                              *)

\* The pad ids put in front of the tokens instead of behind them.
PadToLeft(seq, n) == [k \in 1..(n - Len(seq)) |-> PAD_ID] \o seq

\* for _ in range(n - len(seq)): seq.append(PAD_ID)
PadTo(seq, n) == seq \o [k \in 1..(n - Len(seq)) |-> PAD_ID]

\* Lines 109-112 on the sentences of one story, from sentence j on: each
\* sentence is padded in place, and the first one that is not of length smax
\* afterwards (line 112) stops the loop with the later ones untouched.
RECURSIVE PadSentences(_, _, _)
PadSentences(st, j, smax) ==
    IF j > Len(st) THEN [story |-> st, err |-> "none"]
    ELSE LET s == PadTo(st[j], smax)
             st1 == [st EXCEPT ![j] = s]
         IN  IF Len(s) # smax
             THEN [story |-> st1, err |-> "AssertionError"]
             ELSE PadSentences(st1, j + 1, smax)

\* Line 120 left out: only the query's length is asserted.
asserts_hold_query_only(st, q, stmax, qmax) == Len(q) = qmax

\* Lines 120-121: the assertions on the story's and the query's length.
asserts_hold(st, q, stmax, qmax) == Len(st) = stmax /\ Len(q) = qmax

\* Lines 109-121 on one example.
pad_example(ex, smax, stmax, qmax) ==
    LET ps == PadSentences(ex.story, 1, smax)
    IN  IF ps.err # "none"
        THEN [example |-> [ex EXCEPT !.story = ps.story], err |-> ps.err]
        ELSE
        LET st == ps.story
                    \o [k \in 1..(stmax - Len(ps.story)) |->
                            [m \in 1..smax |-> PAD_ID]]
            q == PadTo(ex.query, qmax)
        IN  [example |-> Example(st, q, ex.answer),
             err |-> IF asserts_hold(st, q, stmax, qmax)
                     THEN "none" ELSE "AssertionError"]

\* pad_stories from example i on: the examples are padded in place and in
\* order, and the first failed assertion leaves the later ones untouched.
RECURSIVE PadFrom(_, _, _, _, _)
PadFrom(sts, i, smax, stmax, qmax) ==
    IF i > Len(sts) THEN [stories |-> sts, err |-> "none"]
    ELSE LET r == pad_example(sts[i], smax, stmax, qmax)
             sts1 == [sts EXCEPT ![i] = r.example]
         IN  IF r.err # "none" THEN [stories |-> sts1, err |-> r.err]
             ELSE PadFrom(sts1, i + 1, smax, stmax, qmax)

pad_stories(sts, smax, stmax, qmax) == PadFrom(sts, 1, smax, stmax, qmax)

-----------------------------------------------------------------------------
(* save_dataset (lines 62-85)                                               *)

\* [token_id for sentence in story for token_id in sentence]
RECURSIVE Flatten(_)
Flatten(st) == IF st = << >> THEN << >> ELSE Head(st) \o Flatten(Tail(st))

\* The tf.train.Example written for one padded example (lines 75-83).
Record(ex) ==
    [story |-> Flatten(ex.story), query |-> ex.query, answer |-> <<ex.answer>>]

\* A record file: absent, open (created by TFRecordWriter, line 73, and being
\* written) or closed (line 85), with the records written to it.
NoFile == [state |-> "absent", records |-> << >>]

-----------------------------------------------------------------------------
(* Specification of tokenize: one call on a bounded line                    *)

MaxSentenceChars == 4

TokenizeChars == {"a", "_", " ", "."}

Strings(chars, n) == UNION {[1..k -> chars] : k \in 0..n}

NoSplit == [lines |-> << >>, stories |-> << >>, token |-> << >>]

TokenizeIdle ==
    /\ err = "none"
    /\ tokens = << >>
    /\ lines = << >>
    /\ only_supporting = FALSE
    /\ story = << >>
    /\ stories = << >>
    /\ token_to_id = << >>
    /\ maxima = <<0, 0, 0>>
    /\ padded = 0
    /\ before = << >>
    /\ train = NoSplit
    /\ test = NoSplit
    /\ file_train = NoFile
    /\ file_test = NoFile

InitTokenize ==
    /\ pc = "tokenize"
    /\ sentence \in Strings(TokenizeChars, MaxSentenceChars)
    /\ TokenizeIdle

Tokenize ==
    /\ pc = "tokenize"
    /\ tokens' = tokenize(sentence)
    /\ pc' = "returned"
    /\ UNCHANGED <<err, sentence, lines, only_supporting, story, stories,
                   token_to_id, maxima, padded, before, train, test,
                   file_train, file_test>>

NextTokenize == Tokenize

SpecTokenize == InitTokenize /\ [][NextTokenize]_vars

-----------------------------------------------------------------------------
(* C2: tokenize                                                             *)

\* The positions where a maximal run of characters of one class (word,
\* non-word) starts.
RunStarts(s) ==
    {i \in 1..Len(s) : i = 1 \/ (s[i] \in WordChars) # (s[i - 1] \in WordChars)}

\* The maximal run that starts at i.
RunAt(s, i) ==
    LET e == CHOOSE j \in i..Len(s) :
                 /\ \A k \in i..j : (s[k] \in WordChars) = (s[i] \in WordChars)
                 /\ j = Len(s) \/ (s[j + 1] \in WordChars) # (s[i] \in WordChars)
    IN  SubSeq(s, i, e)

RECURSIVE Ascending(_)
Ascending(S) ==
    IF S = {} THEN << >>
    ELSE LET m == CHOOSE x \in S : \A y \in S : x <= y
         IN  <<m>> \o Ascending(S \ {m})

\* The maximal runs of s, in order.
Runs(s) == LET starts == Ascending(RunStarts(s))
           IN  [k \in 1..Len(starts) |-> RunAt(s, starts[k])]

IsWordRun(r) == r # << >> /\ r[1] \in WordChars

\* r without its leading and trailing whitespace.
Trimmed(r) ==
    LET inked == {i \in 1..Len(r) : r[i] \notin Whitespace}
    IN  IF inked = {} THEN << >>
        ELSE SubSeq(r, CHOOSE i \in inked : \A j \in inked : i <= j,
                       CHOOSE i \in inked : \A j \in inked : j <= i)

NotEmpty(r) == r # << >>

TrimmedRuns(s) ==
    SelectSeq([k \in 1..Len(Runs(s)) |-> Trimmed(Runs(s)[k])], NotEmpty)

-----------------------------------------------------------------------------
(* Specification of parse_stories: the loop, one line per step.  The lines  *)
(* are drawn as the loop reads them; `lines` keeps those read so far.       *)

MaxLines == 4

RECURSIVE Dec(_)
Dec(n) ==
    IF n < 10 THEN <<Digits[n + 1]>>
    ELSE Dec(n \div 10) \o <<Digits[(n % 10) + 1]>>

\* The decimal numeral of n.
Num(n) == IF n < 0 THEN <<"-">> \o Dec(0 - n) ELSE Dec(n)

\* The narrative text of a line, by its id: "a b.", "c.", "b a".
Text(n) ==
    CASE n % 3 = 1 -> <<"a", " ", "b", ".">>
      [] n % 3 = 2 -> <<"c", ".">>
      [] n % 3 = 0 -> <<"b", " ", "a">>

NarrativeLine(n) == Num(n) \o <<" ">> \o Text(n) \o <<"\n">>

\* "<n> a?\tb\t<supporting>\n"
QuestionLine(n, supporting) ==
    Num(n) \o <<" ", "a", "?", "\t", "b", "\t">> \o supporting \o <<"\n">>

\* A line with no "id space" start.
MalformedLine == <<"c", "\n">>

\* The supporting-fact fields tried: 1; 2; 3 1; 0; -1.  Without
\* only_supporting the field is split off and never read.
Supportings(supp_only) ==
    IF supp_only
    THEN {<<"1">>, <<"2">>, <<"3", " ", "1">>, <<"0">>, <<"-", "1">>}
    ELSE {<<"1">>}

\* The id of a well-formed line, and whether it is a question line.
LineId(raw) == Int_(SplitOnce(Strip(raw), " ")[1])

Content(raw) == SplitOnce(Strip(raw), " ")[2]

IsQuestion(raw) == Find(raw, "\t", 1) # 0

LastId(ls) == IF ls = << >> THEN 0 ELSE LineId(ls[Len(ls)])

\* The next line is numbered 1 (a new story), follows the last one, or skips
\* a number.
NextLines(ls, supp_only) ==
    LET ids == {1, LastId(ls) + 1, LastId(ls) + 2}
    IN  {NarrativeLine(n) : n \in ids}
            \cup {QuestionLine(n, sup) : n \in ids, sup \in Supportings(supp_only)}
            \cup {MalformedLine}

ParseIdle ==
    /\ sentence = << >>
    /\ tokens = << >>
    /\ token_to_id = << >>
    /\ maxima = <<0, 0, 0>>
    /\ padded = 0
    /\ before = << >>
    /\ train = NoSplit
    /\ test = NoSplit
    /\ file_train = NoFile
    /\ file_test = NoFile

InitParse ==
    /\ pc = "loop"
    /\ err = "none"
    /\ only_supporting \in BOOLEAN
    /\ lines = << >>
    /\ story = << >>
    /\ stories = << >>
    /\ ParseIdle

notParse == <<sentence, tokens, token_to_id, maxima, padded, before, train,
              test, file_train, file_test>>

\* One iteration of the loop of lines 38-59; an exception ends the call.
ParseLine ==
    /\ pc = "loop"
    /\ Len(lines) < MaxLines
    /\ \E raw \in NextLines(lines, only_supporting) :
          LET r == parse_line(story, stories, only_supporting, raw)
          IN  /\ lines' = Append(lines, raw)
              /\ err' = r.err
              /\ pc' = IF r.err = "none" THEN "loop" ELSE "raised"
              /\ story' = r.story
              /\ stories' = r.stories
    /\ UNCHANGED only_supporting
    /\ UNCHANGED notParse

\* Line 60: the lines are exhausted.
ParseReturn ==
    /\ pc = "loop"
    /\ pc' = "returned"
    /\ UNCHANGED <<err, lines, only_supporting, story, stories>>
    /\ UNCHANGED notParse

NextParse == ParseLine \/ ParseReturn

SpecParse == InitParse /\ [][NextParse]_vars

-----------------------------------------------------------------------------
(* C4, C5, C6, C8: parse_stories                                            *)

LastLine == lines[Len(lines)]

\* The loop has just read a question line (and has emitted its example, or
\* has raised on it).
QuestionRead == lines # << >> /\ IsQuestion(LastLine)

QuestionEmitted == QuestionRead /\ err = "none"

LastExample == stories[Len(stories)]

\* The most recent line with id 1 (the first line, if there is none).
StoryStart ==
    LET ones == {i \in 1..Len(lines) : LineId(lines[i]) = 1}
    IN  IF ones = {} THEN 1 ELSE Max(ones)

\* The lines of the current story read before the last line.
Earlier == StoryStart..(Len(lines) - 1)

\* The current story is numbered 1, 2, 3, ... up to the last line.
Consecutive ==
    \A i \in StoryStart..Len(lines) : LineId(lines[i]) = i - StoryStart + 1

\* The supporting-fact indices of a question line.
SupportingOf(raw) ==
    LET words == SplitWs(SplitOn(Content(raw), "\t")[3])
    IN  [k \in 1..Len(words) |-> Int_(words[k])]

\* In a consecutively numbered story, the line with id i.
LineWithId(i) == lines[StoryStart + i - 1]

IsNarrativeId(i) == i \in 1..Cardinality(Earlier) /\ ~IsQuestion(LineWithId(i))

\* C4: with only_supporting, in a story numbered consecutively from 1, the
\* story emitted for a question line holds one entry per referenced index, in
\* the order given, and the entry of an index that is the id of a narrative
\* line is that line's tokens, whatever the number of question lines before it;
\* a question whose indices all are ids of narrative lines is emitted.
C4_SupportingAligned ==
    (only_supporting /\ QuestionRead /\ Consecutive) =>
        LET refs == SupportingOf(LastLine)
        IN  /\ (\A k \in 1..Len(refs) : IsNarrativeId(refs[k])) => err = "none"
            /\ err = "none" =>
                  /\ Len(LastExample.story) = Len(refs)
                  /\ \A k \in 1..Len(refs) :
                        IsNarrativeId(refs[k]) =>
                            LastExample.story[k]
                                = tokenize(Content(LineWithId(refs[k])))

\* A narrative line, a question, a narrative line and a question that refers
\* to lines 3 and 1, in that order, have been parsed.
C4_Witness ==
    /\ only_supporting
    /\ QuestionEmitted
    /\ Consecutive
    /\ Len(lines) = 4
    /\ IsQuestion(lines[2])
    /\ ~IsQuestion(lines[3])
    /\ SupportingOf(LastLine) = <<3, 1>>
    /\ LastExample.story = <<tokenize(Text(3)), tokenize(Text(1))>>

\* C5: without only_supporting the story of an emitted example is exactly the
\* tokens of the narrative lines from the most recent id-1 line up to the
\* question line, in order and without placeholders; in either mode every
\* sentence of the example comes from a line of that range.
C5_ResetOnIdOne ==
    QuestionEmitted =>
        LET narr == Ascending({i \in Earlier : ~IsQuestion(lines[i])})
            st == LastExample.story
        IN  /\ ~only_supporting =>
                  st = [k \in 1..Len(narr) |-> tokenize(Content(lines[narr[k]]))]
            /\ \A k \in 1..Len(st) :
                  \/ st[k] = Placeholder
                  \/ \E j \in 1..Len(narr) :
                        st[k] = tokenize(Content(lines[narr[j]]))

\* Two narrative lines, then a line with id 1 in mid-stream, then a question:
\* the example holds the third line only.
C5_Witness ==
    /\ ~only_supporting
    /\ QuestionEmitted
    /\ Len(lines) = 4
    /\ LineId(lines[2]) = 2
    /\ ~IsQuestion(lines[2])
    /\ LineId(lines[3]) = 1
    /\ LastExample.story = <<tokenize(Text(1))>>

\* C6 as claimed: with only_supporting, an index that resolves to the
\* placeholder of an earlier question line makes the parse fail, and no
\* emitted example holds a placeholder.
C6_PlaceholderFails ==
    only_supporting =>
        /\ \A i \in 1..Len(stories) :
              \A k \in 1..Len(stories[i].story) :
                  stories[i].story[k] # Placeholder
        /\ (QuestionRead /\ Consecutive
              /\ \E k \in 1..Len(SupportingOf(LastLine)) :
                    LET i == SupportingOf(LastLine)[k]
                    IN  i \in 1..Cardinality(Earlier) /\ IsQuestion(LineWithId(i)))
           => err # "none"

\* C8 as claimed: with only_supporting, an index that is 0, negative or
\* greater than the number of lines read so far in the current story makes
\* the parse fail.
C8_OutOfRangeFails ==
    (only_supporting /\ QuestionRead
        /\ \E k \in 1..Len(SupportingOf(LastLine)) :
              SupportingOf(LastLine)[k] \notin 1..Cardinality(Earlier))
    => (err # "none" /\ pc = "raised")

-----------------------------------------------------------------------------
(* Specification of get_tokenizer: one call on a bounded corpus             *)

MaxVocabSentence == 2

\* The tokens of the corpus: "_PAD" (a word of four word characters, spelled
\* as PAD_TOKEN is), "a", "b", "ab".
VocabTokens == {PAD_TOKEN, <<"a">>, <<"b">>, <<"a", "b">>}

\* One example: a story of one sentence, a query of at most one token, an answer.
VocabCorpora ==
    {<<Example(<<s>>, q, a)>> :
        s \in Strings(VocabTokens, MaxVocabSentence),
        q \in Strings(VocabTokens, 1),
        a \in VocabTokens}

InitVocab ==
    /\ pc = "get_tokenizer"
    /\ err = "none"
    /\ stories \in VocabCorpora
    /\ token_to_id = << >>
    /\ sentence = << >>
    /\ tokens = << >>
    /\ lines = << >>
    /\ only_supporting = FALSE
    /\ story = << >>
    /\ maxima = <<0, 0, 0>>
    /\ padded = 0
    /\ before = << >>
    /\ train = NoSplit
    /\ test = NoSplit
    /\ file_train = NoFile
    /\ file_test = NoFile

GetTokenizer ==
    /\ pc = "get_tokenizer"
    /\ token_to_id' = get_tokenizer(stories)
    /\ pc' = "returned"
    /\ UNCHANGED <<err, sentence, tokens, lines, only_supporting, story, stories,
                   maxima, padded, before, train, test, file_train, file_test>>

NextVocab == GetTokenizer

SpecVocab == InitVocab /\ [][NextVocab]_vars

-----------------------------------------------------------------------------
(* C3: get_tokenizer                                                        *)

\* C3 as claimed: in the mapping built, the pad token has id 0, no token of
\* the corpus has id 0, and the distinct tokens of the corpus have the ids
\* 1..N in ascending order, for every corpus.
C3_PadIsZero ==
    pc = "returned" =>
        LET corpus == TokensAll(stories)
        IN  /\ PAD_TOKEN \in DOMAIN token_to_id
            /\ token_to_id[PAD_TOKEN] = PAD_ID
            /\ \A t \in corpus : token_to_id[t] # PAD_ID
            /\ {token_to_id[t] : t \in corpus} = 1..Cardinality(corpus)
            /\ \A t, u \in corpus :
                  StrLess(t, u) => token_to_id[t] < token_to_id[u]

-----------------------------------------------------------------------------
(* Specification of pad_stories: calls on bounded encoded examples          *)

MaxPadLen == 2

MaxPadStory == 1

MaxPadCalls == 2

\* An encoded sentence of n tokens: the ids 1..n.
Sentence(n) == [k \in 1..n |-> k]

PadSentencesIn == {Sentence(n) : n \in 0..MaxPadLen}

PadExamplesIn ==
    {Example(st, q, 1) :
        st \in Strings(PadSentencesIn, MaxPadStory), q \in PadSentencesIn}

InitPad ==
    /\ pc = "pad_stories"
    /\ err = "none"
    /\ stories \in Strings(PadExamplesIn, 2)
    /\ maxima \in (0..MaxPadLen) \X (0..MaxPadStory) \X (0..MaxPadLen)
    /\ padded = 0
    /\ before = stories
    /\ sentence = << >>
    /\ tokens = << >>
    /\ lines = << >>
    /\ only_supporting = FALSE
    /\ story = << >>
    /\ token_to_id = << >>
    /\ train = NoSplit
    /\ test = NoSplit
    /\ file_train = NoFile
    /\ file_test = NoFile

\* One call of pad_stories on the examples as they are, with the same maxima.
PadStories ==
    /\ pc = "pad_stories"
    /\ padded < MaxPadCalls
    /\ LET r == pad_stories(stories, maxima[1], maxima[2], maxima[3])
       IN  /\ before' = stories
           /\ stories' = r.stories
           /\ err' = r.err
           /\ pc' = IF r.err = "none" THEN "pad_stories" ELSE "raised"
           /\ padded' = IF r.err = "none" THEN padded + 1 ELSE padded
    /\ UNCHANGED <<sentence, tokens, lines, only_supporting, story, token_to_id,
                   maxima, train, test, file_train, file_test>>

NextPad == PadStories

SpecPad == InitPad /\ [][NextPad]_vars

-----------------------------------------------------------------------------
(* C9, C10: pad_stories                                                     *)

IsPrefix(a, b) == Len(a) <= Len(b) /\ SubSeq(b, 1, Len(a)) = a

\* b is a followed by pad ids only.
IsPadded(a, b) ==
    IsPrefix(a, b) /\ \A k \in (Len(a) + 1)..Len(b) : b[k] = PAD_ID

\* Some example has a sentence, a story or a query longer than the maxima m.
Exceeds(sts, m) ==
    \E i \in 1..Len(sts) :
        \/ \E j \in 1..Len(sts[i].story) : Len(sts[i].story[j]) > m[1]
        \/ Len(sts[i].story) > m[2]
        \/ Len(sts[i].query) > m[3]

\* Every example has exactly the shape m.
Shaped(sts, m) ==
    \A i \in 1..Len(sts) :
        /\ Len(sts[i].story) = m[2]
        /\ \A j \in 1..Len(sts[i].story) : Len(sts[i].story[j]) = m[1]
        /\ Len(sts[i].query) = m[3]

\* pad_stories has been called; `before` holds the argument of the last call.
PadCalled == pc = "raised" \/ padded >= 1

\* C9: a call of pad_stories on examples of which one has a sentence, a
\* story or a query longer than its maximum raises (AssertionError) and does
\* not return, and no call ever shortens a sentence, a story or a query.
C9_OversizeRaises ==
    PadCalled =>
        /\ Exceeds(before, maxima) => (pc = "raised" /\ err = "AssertionError")
        /\ Len(stories) = Len(before)
        /\ \A i \in 1..Len(before) :
              /\ Len(stories[i].story) >= Len(before[i].story)
              /\ \A j \in 1..Len(before[i].story) :
                    IsPrefix(before[i].story[j], stories[i].story[j])
              /\ IsPrefix(before[i].query, stories[i].query)

\* The call raised on a second example whose story alone is too long, the
\* first example having been padded.
C9_Witness ==
    /\ pc = "raised"
    /\ Len(before) = 2
    /\ ~Exceeds(<<before[1]>>, maxima)
    /\ Shaped(<<stories[1]>>, maxima)
    /\ Len(before[2].story) > maxima[2]
    /\ \A j \in 1..Len(before[2].story) : Len(before[2].story[j]) <= maxima[1]
    /\ Len(before[2].query) <= maxima[3]

\* C10: a call that returns leaves every example with the shape of the
\* maxima, each sentence and the query being the original ids followed by pad
\* ids only, the added sentences all pad ids and the answer unchanged; on
\* examples that already have that shape it changes nothing, so a second call
\* returns what the first returned.
C10_PadIdempotent ==
    padded >= 1 =>
        /\ Shaped(stories, maxima)
        /\ Len(stories) = Len(before)
        /\ \A i \in 1..Len(before) :
              /\ \A j \in 1..Len(before[i].story) :
                    IsPadded(before[i].story[j], stories[i].story[j])
              /\ \A j \in (Len(before[i].story) + 1)..Len(stories[i].story) :
                    IsPadded(<< >>, stories[i].story[j])
              /\ IsPadded(before[i].query, stories[i].query)
              /\ stories[i].answer = before[i].answer
        /\ Shaped(before, maxima) => stories = before
        /\ padded >= 2 => stories = before

\* pad_stories has returned twice, the first call having padded a sentence of
\* one token, an empty story's place and a query of one token.
C10_Witness ==
    /\ padded = 2
    /\ maxima = <<2, 1, 2>>
    /\ stories = <<Example(<<<<1, PAD_ID>>>>, <<1, PAD_ID>>, 1),
                   Example(<<<<PAD_ID, PAD_ID>>>>, <<1, 2>>, 1)>>

-----------------------------------------------------------------------------
(* Specification of main: the pipeline of one task (lines 160-192), one     *)
(* statement per step.  save_dataset writes one record per step, and any    *)
(* step that touches the file may fail with an I/O error.                   *)

MaxFileLines == 2

\* "3 b a?\tc\t1\n": a question line with a query of three tokens.
LongQuestionLine ==
    <<"3", " ", "b", " ", "a", "?", "\t", "c", "\t", "1", "\n">>

\* The lines a split is made of.
MainLines ==
    {NarrativeLine(1), NarrativeLine(2), QuestionLine(3, <<"1">>),
     LongQuestionLine, MalformedLine}

Split(ls) == [lines |-> ls, stories |-> << >>, token |-> << >>]

InitMain ==
    /\ pc = "parse_train"
    /\ err = "none"
    /\ \E ls \in Strings(MainLines, MaxFileLines) : train = Split(ls)
    /\ \E ls \in Strings(MainLines, MaxFileLines) : test = Split(ls)
    /\ token_to_id = << >>
    /\ maxima = <<0, 0, 0>>
    /\ file_train = NoFile
    /\ file_test = NoFile
    /\ sentence = << >>
    /\ tokens = << >>
    /\ lines = << >>
    /\ only_supporting = FALSE
    /\ story = << >>
    /\ stories = << >>
    /\ padded = 0
    /\ before = << >>

notMain == <<sentence, tokens, lines, only_supporting, story, stories, padded,
             before>>

Raise(e) == pc' = "raised" /\ err' = e

\* Line 163: stories_train = parse_stories(f_train.readlines())
MainParseTrain ==
    /\ pc = "parse_train"
    /\ LET r == parse_stories(train.lines, FALSE)
       IN  IF r.err # "none"
           THEN Raise(r.err) /\ UNCHANGED train
           ELSE /\ train' = [train EXCEPT !.stories = r.stories]
                /\ pc' = "parse_test"
                /\ UNCHANGED err
    /\ UNCHANGED <<test, token_to_id, maxima, file_train, file_test>>
    /\ UNCHANGED notMain

\* Line 164: stories_test = parse_stories(f_test.readlines())
MainParseTest ==
    /\ pc = "parse_test"
    /\ LET r == parse_stories(test.lines, FALSE)
       IN  IF r.err # "none"
           THEN Raise(r.err) /\ UNCHANGED test
           ELSE /\ test' = [test EXCEPT !.stories = r.stories]
                /\ pc' = "get_tokenizer"
                /\ UNCHANGED err
    /\ UNCHANGED <<train, token_to_id, maxima, file_train, file_test>>
    /\ UNCHANGED notMain

\* Lines 166-169: the vocabulary of both splits (tokens.json is a dump of it).
MainGetTokenizer ==
    /\ pc = "get_tokenizer"
    /\ token_to_id' = get_tokenizer(train.stories \o test.stories)
    /\ pc' = "tokenize_train"
    /\ UNCHANGED <<err, train, test, maxima, file_train, file_test>>
    /\ UNCHANGED notMain

\* Line 171: stories_token_train = tokenize_stories(stories_train, token_to_id)
MainTokenizeTrain ==
    /\ pc = "tokenize_train"
    /\ IF ~tokenize_ok(train.stories, token_to_id)
       THEN Raise("KeyError") /\ UNCHANGED train
       ELSE /\ train' = [train EXCEPT
                            !.token = tokenize_stories(train.stories, token_to_id)]
            /\ pc' = "tokenize_test"
            /\ UNCHANGED err
    /\ UNCHANGED <<test, token_to_id, maxima, file_train, file_test>>
    /\ UNCHANGED notMain

\* Line 172: stories_token_test = tokenize_stories(stories_test, token_to_id)
MainTokenizeTest ==
    /\ pc = "tokenize_test"
    /\ IF ~tokenize_ok(test.stories, token_to_id)
       THEN Raise("KeyError") /\ UNCHANGED test
       ELSE /\ test' = [test EXCEPT
                            !.token = tokenize_stories(test.stories, token_to_id)]
            /\ pc' = "infer"
            /\ UNCHANGED err
    /\ UNCHANGED <<train, token_to_id, maxima, file_train, file_test>>
    /\ UNCHANGED notMain

\* The maxima taken over the train split alone.
stories_token_train_only(tr, te) == tr

\* Line 173: stories_token_all = stories_token_train + stories_token_test
stories_token_all(tr, te) == tr \o te

\* Lines 173-178: the maxima over both splits; max() of nothing raises.
MainInferShape ==
    /\ pc = "infer"
    /\ LET all == stories_token_all(train.token, test.token)
       IN  IF ~infer_ok(all)
           THEN Raise("ValueError") /\ UNCHANGED maxima
           ELSE /\ maxima' = infer_shape(all)
                /\ pc' = "pad_train"
                /\ UNCHANGED err
    /\ UNCHANGED <<train, test, token_to_id, file_train, file_test>>
    /\ UNCHANGED notMain

\* Lines 186-187: stories_pad_train = pad_stories(stories_token_train, ...)
MainPadTrain ==
    /\ pc = "pad_train"
    /\ LET r == pad_stories(train.token, maxima[1], maxima[2], maxima[3])
       IN  /\ train' = [train EXCEPT !.token = r.stories]
           /\ IF r.err # "none" THEN Raise(r.err)
              ELSE pc' = "pad_test" /\ UNCHANGED err
    /\ UNCHANGED <<test, token_to_id, maxima, file_train, file_test>>
    /\ UNCHANGED notMain

\* Lines 188-189: stories_pad_test = pad_stories(stories_token_test, ...)
MainPadTest ==
    /\ pc = "pad_test"
    /\ LET r == pad_stories(test.token, maxima[1], maxima[2], maxima[3])
       IN  /\ test' = [test EXCEPT !.token = r.stories]
           /\ IF r.err # "none" THEN Raise(r.err)
              ELSE pc' = "open_train" /\ UNCHANGED err
    /\ UNCHANGED <<train, token_to_id, maxima, file_train, file_test>>
    /\ UNCHANGED notMain

\* Line 73: TFRecordWriter(path) creates the file, empty.
SaveOpen(file, here, next) ==
    /\ pc = here
    /\ file' = [state |-> "open", records |-> << >>]
    /\ pc' = next
    /\ UNCHANGED err

\* Lines 74-84: the next record is written; after the last one, line 85.
SaveWrite(file, sts, here, next) ==
    /\ pc = here
    /\ IF Len(file.records) < Len(sts)
       THEN /\ file' = [file EXCEPT
                           !.records = Append(@, Record(sts[Len(@) + 1]))]
            /\ pc' = here
       ELSE /\ file' = [file EXCEPT !.state = "closed"]
            /\ pc' = next
    /\ UNCHANGED err

\* Line 191: save_dataset(stories_pad_train, dataset_path_train)
MainOpenTrain ==
    /\ SaveOpen(file_train, "open_train", "write_train")
    /\ UNCHANGED <<train, test, token_to_id, maxima, file_test>>
    /\ UNCHANGED notMain

MainWriteTrain ==
    /\ SaveWrite(file_train, train.token, "write_train", "open_test")
    /\ UNCHANGED <<train, test, token_to_id, maxima, file_test>>
    /\ UNCHANGED notMain

\* Line 192: save_dataset(stories_pad_test, dataset_path_test)
MainOpenTest ==
    /\ SaveOpen(file_test, "open_test", "write_test")
    /\ UNCHANGED <<train, test, token_to_id, maxima, file_train>>
    /\ UNCHANGED notMain

MainWriteTest ==
    /\ SaveWrite(file_test, test.token, "write_test", "done")
    /\ UNCHANGED <<train, test, token_to_id, maxima, file_train>>
    /\ UNCHANGED notMain

\* Opening the file, writing a record or closing the file fails (an
\* unwritable path, a full disk): the exception leaves save_dataset and main,
\* which handle none, and the file stays as it is.
MainIOError ==
    /\ pc \in {"open_train", "write_train", "open_test", "write_test"}
    /\ Raise("IOError")
    /\ UNCHANGED <<train, test, token_to_id, maxima, file_train, file_test>>
    /\ UNCHANGED notMain

NextMain ==
    \/ MainParseTrain
    \/ MainParseTest
    \/ MainGetTokenizer
    \/ MainTokenizeTrain
    \/ MainTokenizeTest
    \/ MainInferShape
    \/ MainPadTrain
    \/ MainPadTest
    \/ MainOpenTrain
    \/ MainWriteTrain
    \/ MainOpenTest
    \/ MainWriteTest
    \/ MainIOError

SpecMain == InitMain /\ [][NextMain]_vars

-----------------------------------------------------------------------------
(* C1, C7: main                                                             *)

\* Both calls of pad_stories have returned.
BothPadded ==
    \/ pc \in {"open_train", "write_train", "open_test", "write_test", "done"}
    \/ pc = "raised" /\ err = "IOError"

\* The padded examples are the encoded examples of the split, each sentence
\* and query followed by pad ids only.
Untruncated(split) ==
    LET enc == tokenize_stories(split.stories, token_to_id)
    IN  /\ Len(split.token) = Len(enc)
        /\ \A i \in 1..Len(enc) :
              /\ Len(split.token[i].story) >= Len(enc[i].story)
              /\ \A j \in 1..Len(enc[i].story) :
                    IsPadded(enc[i].story[j], split.token[i].story[j])
              /\ IsPadded(enc[i].query, split.token[i].query)
              /\ split.token[i].answer = enc[i].answer

\* C1: with the maxima inferred over both splits, neither call of pad_stories
\* fails, and every padded example of the train and of the test split has
\* len(story) = story max, every sentence the sentence max and the query the
\* query max, with the encoded tokens kept in front of the padding.
C1_SharedShape ==
    /\ err # "AssertionError"
    /\ pc = "pad_test" => (Shaped(train.token, maxima) /\ Untruncated(train))
    /\ BothPadded =>
          /\ Shaped(train.token, maxima)
          /\ Shaped(test.token, maxima)
          /\ Untruncated(train)
          /\ Untruncated(test)

\* A task is done whose test split has a longer sentence than any of the
\* train split, and whose train split has a longer query than any of the test
\* split.
C1_Witness ==
    /\ pc = "done"
    /\ SentenceLengths(train.stories) # {}
    /\ SentenceLengths(test.stories) # {}
    /\ Max(SentenceLengths(train.stories)) < Max(SentenceLengths(test.stories))
    /\ Max(QueryLengths(train.stories)) > Max(QueryLengths(test.stories))
    /\ Len(file_train.records) >= 1
    /\ Len(file_test.records) >= 1

\* The file holds the record of every example of the split, in order.
FileComplete(file, split) ==
    file.records = [i \in 1..Len(split.token) |-> Record(split.token[i])]

\* C7 as claimed: after a failure at any stage of the task, writing the
\* records included, each record file of the task either does not exist or
\* holds all its records, and no record file exists before both splits are
\* padded.
C7_NoPartialOutput ==
    /\ (file_train.state # "absent" \/ file_test.state # "absent") => BothPadded
    /\ pc = "raised" =>
          /\ file_train.state = "absent" \/ FileComplete(file_train, train)
          /\ file_test.state = "absent" \/ FileComplete(file_test, test)

=============================================================================
